---- MODULE Spec2Model ----
(***************************************************************************)
(* Model of the traefik header plugin (dclairac/traefik-plugin-headers).   *)
(*                                                                         *)
(* The repository holds three revisions of the engine, and the model keeps *)
(* them apart under the names                                              *)
(*   "sentinel"  src/unnamed/part_001        (NO_MATCH rules, wrapper)     *)
(*   "break"     src/tpheaders.go:1-220      (defaultHeaders, break,       *)
(*                                            wrapper)                     *)
(*   "changes"   src/tpheaders.go:222-400    (HeaderChange lists, no       *)
(*                                            wrapper)                     *)
(* Strings are TLA+ strings; Len, SubSeq and \o work on them in TLC.       *)
(***************************************************************************)
EXTENDS Integers, Sequences, FiniteSets, TLC

(***************************************************************************)
(* Go strings package                                                      *)
(***************************************************************************)
CharAt(s, i) == SubSeq(s, i, i)

\* strings.Contains
Contains(s, sub) ==
  \E i \in 1..(Len(s) - Len(sub) + 1) : SubSeq(s, i, i + Len(sub) - 1) = sub

\* index of the first occurrence of the one-character string c in s from
\* position i on, 0 if none
IndexFrom(s, c, i) ==
  LET hits == {j \in i..Len(s) : CharAt(s, j) = c}
  IN IF hits = {} THEN 0 ELSE CHOOSE j \in hits : \A k \in hits : j <= k

IndexOf(s, c) == IndexFrom(s, c, 1)

IsSpace(c) == c = " "

RECURSIVE TrimLeft(_)
TrimLeft(s) ==
  IF s # "" /\ IsSpace(CharAt(s, 1)) THEN TrimLeft(SubSeq(s, 2, Len(s))) ELSE s

RECURSIVE TrimRight(_)
TrimRight(s) ==
  IF s # "" /\ IsSpace(CharAt(s, Len(s))) THEN TrimRight(SubSeq(s, 1, Len(s) - 1)) ELSE s

\* strings.TrimSpace
TrimSpace(s) == TrimRight(TrimLeft(s))

\* strings.Split(s, sep) for a one-character sep: a sequence of strings
RECURSIVE Split(_, _)
Split(s, sep) ==
  LET i == IndexOf(s, sep)
  IN IF i = 0 THEN <<s>>
     ELSE <<SubSeq(s, 1, i - 1)>> \o Split(SubSeq(s, i + 1, Len(s)), sep)

(***************************************************************************)
(* Go regexp package, for the dialect the configurations below use:        *)
(* literal characters, ".", "\d", "\x" (escaped literal), the postfix      *)
(* repetitions "+" and "*", and the anchors "^" and "$".  Group, class and *)
(* alternation syntax is parsed only far enough to reject what Go rejects. *)
(***************************************************************************)
\* the set of the characters of s
Chars(s) == {CharAt(s, i) : i \in 1..Len(s)}

Digits == "0123456789"

DigitSet == Chars(Digits)

IsDigit(c) == c \in DigitSet

Atom(kind, ch) == [kind |-> kind, ch |-> ch, rep |-> "one"]

\* what Parse gives where regexp.Compile returns an error
Invalid == <<Atom("invalid", "")>>

\* regexp/syntax parse: the sequence of atoms, or Invalid
RECURSIVE ParseFrom(_, _, _)
ParseFrom(p, i, acc) ==
  IF i > Len(p) THEN acc
  ELSE LET c == CharAt(p, i) IN
    CASE c = "\\" ->
           IF i = Len(p) THEN Invalid
           ELSE IF CharAt(p, i + 1) = "d"
                THEN ParseFrom(p, i + 2, Append(acc, Atom("digit", "")))
                ELSE ParseFrom(p, i + 2, Append(acc, Atom("lit", CharAt(p, i + 1))))
      [] c = "." -> ParseFrom(p, i + 1, Append(acc, Atom("any", "")))
      [] c = "^" -> ParseFrom(p, i + 1, Append(acc, Atom("bol", "")))
      [] c = "$" -> ParseFrom(p, i + 1, Append(acc, Atom("eol", "")))
      [] c \in {"+", "*"} ->
           \* missing argument to repetition operator / invalid nested repetition
           IF acc = <<>> \/ acc[Len(acc)].rep # "one" \/ acc[Len(acc)].kind \in {"bol", "eol"}
           THEN Invalid
           ELSE ParseFrom(p, i + 1,
                  [acc EXCEPT ![Len(acc)].rep = IF c = "+" THEN "plus" ELSE "star"])
      [] c \in {"(", ")", "[", "]"} -> Invalid   \* unbalanced in this dialect
      [] OTHER -> ParseFrom(p, i + 1, Append(acc, Atom("lit", c)))

Parse(p) == ParseFrom(p, 1, <<>>)

\* regexp.Compile succeeds
ValidRegexp(p) == Parse(p) # Invalid

AtomMatches(a, c) ==
  CASE a.kind = "lit"   -> c = a.ch
    [] a.kind = "any"   -> c # "\n"
    [] a.kind = "digit" -> IsDigit(c)
    [] OTHER            -> FALSE

\* number of consecutive characters of s from position i that atom a accepts
RECURSIVE Run(_, _, _)
Run(a, s, i) ==
  IF i <= Len(s) /\ AtomMatches(a, CharAt(s, i)) THEN 1 + Run(a, s, i + 1) ELSE 0

\* leftmost-first match of atoms[k..] at position i of s: the position after
\* the match, or -1.  Repetitions are greedy.
RECURSIVE MatchHere(_, _, _, _)
RECURSIVE TryRep(_, _, _, _, _, _)
MatchHere(atoms, k, s, i) ==
  IF k > Len(atoms) THEN i
  ELSE LET a == atoms[k] IN
    CASE a.kind = "bol" -> IF i = 1 THEN MatchHere(atoms, k + 1, s, i) ELSE -1
      [] a.kind = "eol" -> IF i = Len(s) + 1 THEN MatchHere(atoms, k + 1, s, i) ELSE -1
      [] OTHER ->
           IF a.rep = "one"
           THEN IF i <= Len(s) /\ AtomMatches(a, CharAt(s, i))
                THEN MatchHere(atoms, k + 1, s, i + 1) ELSE -1
           ELSE TryRep(atoms, k, s, i, Run(a, s, i), IF a.rep = "plus" THEN 1 ELSE 0)

TryRep(atoms, k, s, i, n, min) ==
  IF n < min THEN -1
  ELSE LET e == MatchHere(atoms, k + 1, s, i + n)
       IN IF e # -1 THEN e ELSE TryRep(atoms, k, s, i, n - 1, min)

\* the start of the leftmost match of atoms in s from position i on, 0 if none
FindFrom(atoms, s, i) ==
  LET hits == {j \in i..(Len(s) + 1) : MatchHere(atoms, 1, s, j) # -1}
  IN IF hits = {} THEN 0 ELSE CHOOSE j \in hits : \A k \in hits : j <= k

MatchAtoms(atoms, s) == FindFrom(atoms, s, 1) # 0

\* (*Regexp).MatchString: unanchored search
MatchString(p, s) == MatchAtoms(Parse(p), s)

\* (*Regexp).ReplaceAllString, for a replacement without "$" references
RECURSIVE ReplaceFrom(_, _, _, _, _)
ReplaceFrom(atoms, s, i, lastEnd, repl) ==
  IF i > Len(s) + 1 THEN ""
  ELSE IF FindFrom(atoms, s, i) = 0 THEN SubSeq(s, i, Len(s))
  ELSE IF FindFrom(atoms, s, i) > i
       THEN \* the text before the next match is copied
            SubSeq(s, i, FindFrom(atoms, s, i) - 1)
              \o ReplaceFrom(atoms, s, FindFrom(atoms, s, i), lastEnd, repl)
  ELSE LET e    == MatchHere(atoms, 1, s, i)
           rest == IF i <= Len(s)
                   THEN CharAt(s, i) \o ReplaceFrom(atoms, s, i + 1, lastEnd, repl)
                   ELSE ""
       IN IF e = -1 THEN rest
          ELSE IF e = i
               THEN \* an empty match abutting the previous match is ignored
                    IF i > lastEnd \/ i = 1
                    THEN repl \o (IF i <= Len(s)
                                  THEN CharAt(s, i) \o ReplaceFrom(atoms, s, i + 1, i, repl)
                                  ELSE "")
                    ELSE rest
               ELSE repl \o ReplaceFrom(atoms, s, e, e, repl)

ReplaceAtoms(atoms, s, repl) == ReplaceFrom(atoms, s, 1, 0, repl)

ReplaceAllString(p, s, repl) == ReplaceAtoms(Parse(p), s, repl)

(***************************************************************************)
(* net/textproto and net/http Header, as editHeaders calls them            *)
(***************************************************************************)
Lowers == "abcdefghijklmnopqrstuvwxyz"

Uppers == "ABCDEFGHIJKLMNOPQRSTUVWXYZ"

\* the other bytes textproto accepts in a header field name (the backquote,
\* which no key below holds, is left out)
TokenMarks == "!#$%&'*+-.^_|~"

UpperOf == [c \in Chars(Lowers) |-> CharAt(Uppers, IndexOf(Lowers, c))]

LowerOf == [c \in Chars(Uppers) |-> CharAt(Lowers, IndexOf(Uppers, c))]

ToUpper(c) == IF c \in DOMAIN UpperOf THEN UpperOf[c] ELSE c

ToLower(c) == IF c \in DOMAIN LowerOf THEN LowerOf[c] ELSE c

TokenChars == Chars(Lowers) \cup Chars(Uppers) \cup DigitSet \cup Chars(TokenMarks)

IsTokenChar(c) == c \in TokenChars

RECURSIVE CanonFrom(_, _, _)
CanonFrom(k, i, upper) ==
  IF i > Len(k) THEN ""
  ELSE LET c == CharAt(k, i)
       IN (IF upper THEN ToUpper(c) ELSE ToLower(c)) \o CanonFrom(k, i + 1, c = "-")

\* textproto.CanonicalMIMEHeaderKey: a key holding a byte that is no token
\* character is returned as it is
\* a key used as it is written
KeyAsWritten(k) == k

CanonicalMIMEHeaderKey(k) ==
  IF \E i \in 1..Len(k) : ~IsTokenChar(CharAt(k, i)) THEN k ELSE CanonFrom(k, 1, TRUE)

\* An http.Header is a function from the stored keys to sequences of values.
EmptyHeader == [x \in {} |-> <<>>]

\* the map operations on a canonical key c
\* a Get that answers "-" where Get answers ""
MapGetOrDash(h, c) ==
  IF c \in DOMAIN h /\ Len(h[c]) > 0 /\ h[c][1] # "" THEN h[c][1] ELSE "-"

MapGet(h, c) == IF c \in DOMAIN h /\ Len(h[c]) > 0 THEN h[c][1] ELSE ""

\* a Set that keeps the values a key already has
\* a Set that makes a collection of the one header
MapSetAlone(h, c, v) == [x \in {c} |-> <<v>>]

MapSetIfAbsent(h, c, v) == [x \in DOMAIN h \cup {c} |-> IF x \in DOMAIN h THEN h[x] ELSE <<v>>]

MapSet(h, c, v) == [x \in DOMAIN h \cup {c} |-> IF x = c THEN <<v>> ELSE h[x]]

\* an Add onto the last value of the key instead of after it
MapAddOntoLast(h, c, v) ==
  [x \in DOMAIN h \cup {c} |->
     IF x = c /\ c \in DOMAIN h
     THEN [h[c] EXCEPT ![Len(h[c])] = @ \o v]
     ELSE IF x = c THEN <<v>> ELSE h[x]]

MapAdd(h, c, v) ==
  [x \in DOMAIN h \cup {c} |->
     IF x = c THEN (IF c \in DOMAIN h THEN Append(h[c], v) ELSE <<v>>) ELSE h[x]]

\* a Del of the first value of the key only
MapDelFirst(h, c) ==
  [x \in {y \in DOMAIN h : y # c \/ Len(h[y]) > 1} |-> IF x = c THEN Tail(h[x]) ELSE h[x]]

MapDel(h, c) == [x \in DOMAIN h \ {c} |-> h[x]]

\* Header.Get, Set, Add and Del canonicalize the key they are given
HeaderGet(h, k) == MapGet(h, CanonicalMIMEHeaderKey(k))

HeaderSet(h, k, v) == MapSet(h, CanonicalMIMEHeaderKey(k), v)

HeaderAdd(h, k, v) == MapAdd(h, CanonicalMIMEHeaderKey(k), v)

\* a Del that deletes nothing
HeaderKeep(h, k) == h

HeaderDel(h, k) == MapDel(h, CanonicalMIMEHeaderKey(k))

(***************************************************************************)
(* The date macro                                                          *)
(***************************************************************************)
\* regexp.MustCompile(`@DT_ADD#([\d]+)@`): the class [\d] is \d, the group
\* captures the digits
dateAddRe == Parse("@DT_ADD#\\d+@")

\* dateAddRe.FindStringSubmatch(s)[1]: the digits of the leftmost macro of
\* s, which starts at position i
SubmatchAt(s, i) ==
  SubSeq(s, i + Len("@DT_ADD#"), MatchHere(dateAddRe, 1, s, i) - 2)

FirstSubmatch(s) == SubmatchAt(s, FindFrom(dateAddRe, s, 1))

\* strconv.Atoi on a string of digits (offsets of up to nine digits)
DigitValue == [c \in DigitSet |-> IndexOf(Digits, c) - 1]

RECURSIVE Atoi(_)
Atoi(d) ==
  IF d = "" THEN 0
  ELSE Atoi(SubSeq(d, 1, Len(d) - 1)) * 10 + DigitValue[CharAt(d, Len(d))]

WeekDays == <<"Thu", "Fri", "Sat", "Sun", "Mon", "Tue", "Wed">>

TwoDigits(n) == IF n < 10 THEN "0" \o ToString(n) ELSE ToString(n)

FourDigits(y) == TwoDigits(y \div 100) \o TwoDigits(y % 100)

\* the day, month and year of day doy of the year that begins on the first
\* of March of year y (the month mp counted from March)
CivilOfMonth(y, doy, mp) ==
  TwoDigits(doy - (153 * mp + 2) \div 5 + 1) \o " "
    \o <<"Mar", "Apr", "May", "Jun", "Jul", "Aug", "Sep", "Oct", "Nov", "Dec",
         "Jan", "Feb">>[mp + 1] \o " "
    \o FourDigits(IF mp < 10 THEN y ELSE y + 1)

\* the date of day doe of the 400-year era, which is in year yoe of the era
CivilOfYear(era, doe, yoe) ==
  CivilOfMonth(era * 400 + yoe, doe - (365 * yoe + yoe \div 4 - yoe \div 100),
               (5 * (doe - (365 * yoe + yoe \div 4 - yoe \div 100)) + 2) \div 153)

\* the date of day doe of the 400-year era (eras begin on 0000-03-01)
CivilDate(era, doe) ==
  CivilOfYear(era, doe, (doe - doe \div 1460 + doe \div 36524 - doe \div 146096) \div 365)

\* time.Time.Format(http.TimeFormat) of the second sec of the day that is
\* day days after 1970-01-01, in the proleptic Gregorian calendar
FormatDay(day, sec) ==
  WeekDays[(day % 7) + 1] \o ", "
    \o CivilDate((day + 719468) \div 146097, (day + 719468) % 146097) \o " "
    \o TwoDigits(sec \div 3600) \o ":" \o TwoDigits((sec % 3600) \div 60) \o ":"
    \o TwoDigits(sec % 60) \o " GMT"

\* time.Time.Format(http.TimeFormat) of the instant t seconds after
\* 1970-01-01T00:00:00Z
HTTPDate(t) == FormatDay(t \div 86400, t % 86400)

\* 64-bit integers are sequences of four 16-bit limbs, the lowest first.
\* the limbs of x from position i on times m, plus the carry c
RECURSIVE MulAddFrom(_, _, _, _)
MulAddFrom(x, i, m, c) ==
  IF i > Len(x) THEN <<>>
  ELSE <<(x[i] * m + c) % 65536>> \o MulAddFrom(x, i + 1, m, (x[i] * m + c) \div 65536)

\* (x * m + a) % 2^64 for m <= 10000
MulAdd(x, m, a) == MulAddFrom(x, 1, m, a)

\* x \div m, for m <= 1000 and the limbs of x up to position i, r being the
\* remainder of the limbs above
RECURSIVE DivFrom(_, _, _, _)
DivFrom(x, i, m, r) ==
  IF i = 0 THEN <<>>
  ELSE DivFrom(x, i - 1, m, (r * 65536 + x[i]) % m) \o <<(r * 65536 + x[i]) \div m>>

\* the decimal digits s from position i on appended to x, four at a time,
\* in 64-bit arithmetic
RECURSIVE FromDecimal(_, _, _)
FromDecimal(s, i, x) ==
  IF i > Len(s) THEN x
  ELSE FromDecimal(s, i + 4, MulAdd(x, 10000, Atoi(SubSeq(s, i, i + 3))))

\* a parse that takes any string of digits
AtoiNeverFails(d) == FALSE

\* the first position of s from i on that holds another digit than 0
RECURSIVE Significant(_, _)
Significant(s, i) ==
  IF i > Len(s) \/ CharAt(s, i) # "0" THEN i ELSE Significant(s, i + 1)

\* the digits s from position i on are a number above that of the digits max
RECURSIVE Above(_, _, _)
Above(s, i, max) ==
  \/ Len(s) - i + 1 > Len(max)
  \/ /\ Len(s) - i + 1 = Len(max)
     /\ max # ""
     /\ \/ DigitValue[CharAt(s, i)] > DigitValue[Head(max)]
        \/ /\ CharAt(s, i) = Head(max)
           /\ Above(s, i + 1, Tail(max))

\* strconv.Atoi(d) returns an error for a string d of digits: the number is
\* above 1<<63 - 1 (int has 64 bits)
AtoiFails(d) == Above(d, Significant(d, 1), "9223372036854775807")

\* time.Duration(nbSecToAdd) * time.Second as an int64 of nanoseconds, for
\* the digits d of the macro, nbSecToAdd being 0 when Atoi fails
Nanoseconds(d) ==
  IF AtoiFails(d) THEN <<0, 0, 0, 0>>
  ELSE FromDecimal(SubSeq("000", 1, (4 - ((Len(d) + 9) % 4)) % 4) \o d \o "000000000",
                   1, <<0, 0, 0, 0>>)

\* the whole seconds of x nanoseconds, a number below 2^34, cut at 128
\* seconds: the multiples of 128 seconds first (86400 = 675 * 128)
Seconds(x) ==
  DivFrom(DivFrom(DivFrom(x, 4, 1000, 0), 4, 1000, 0), 4, 1000, 0)

\* Time.Add and Format: the date sign * w seconds away from instant t
DateAt(t, sign, w) ==
  FormatDay(sign * (((w[2] + 65536 * w[3]) * 512 + w[1] \div 128) \div 675)
              + (t + sign * ((((w[2] + 65536 * w[3]) * 512 + w[1] \div 128) % 675) * 128
                             + (w[1] % 128))) \div 86400,
            (t + sign * ((((w[2] + 65536 * w[3]) * 512 + w[1] \div 128) % 675) * 128
                         + (w[1] % 128))) % 86400)

\* the date x nanoseconds away from instant t, x an int64 in two's
\* complement: a negative duration reaches back to the second it begins in
Shifted(t, x) ==
  IF x[4] >= 32768
  THEN DateAt(t, -1, Seconds(MulAdd(MulAdd([i \in 1..4 |-> 65535 - x[i]], 1, 1),
                                    1, 999999999)))
  ELSE DateAt(t, 1, Seconds(x))

\* time.Now().Add(time.Second * time.Duration(nbSecToAdd)).Format(http.TimeFormat)
\* with t the instant time.Now() returns and d the digits of the macro; up
\* to nine digits the product is computed directly
DateAdd(t, d) ==
  IF Len(d) <= 9 THEN HTTPDate(t + Atoi(d)) ELSE Shifted(t, Nanoseconds(d))

\* adapt(s), with t the instant time.Now() returns
adapt(s, t) ==
  IF ~MatchAtoms(dateAddRe, s) THEN TrimSpace(s)
  ELSE LET newDate == DateAdd(t, FirstSubmatch(s))
       IN TrimSpace(ReplaceAtoms(dateAddRe, s, newDate))

(***************************************************************************)
(* Applying header changes.  A map[string]Header is a sequence of          *)
(* [k, v] pairs with distinct keys; Go visits the pairs in an order of its *)
(* own, so editHeaders gives the set of the outcomes of all orders.  ts    *)
(* holds the instants the successive time.Now() reads of one change        *)
(* return.                                                                 *)
(***************************************************************************)
Header(action, value, replace) ==
  [Description |-> "", Value |-> value, Replace |-> replace, Action |-> action]

\* headers.Set(k, adapt(datas[0])) for the first element, headers.Add(k,
\* adapt(s)) for the others
\* every item of a set value added, the first one too
AddEveryItem(headers, c, i, value) == MapAdd(headers, c, value)

SetOrAdd(headers, c, i, value) ==
  IF i = 1 THEN MapSet(headers, c, value) ELSE MapAdd(headers, c, value)

RECURSIVE AddValues(_, _, _, _, _)
AddValues(headers, c, datas, i, ts) ==
  IF i > Len(datas) THEN headers
  ELSE AddValues(SetOrAdd(headers, c, i, adapt(datas[i], ts[IF i = 1 THEN 1 ELSE 2])),
                 c, datas, i + 1, ts)

\* datas := strings.Split(v.Value, ","); Set the first, Add the others
SetValues(headers, c, value, ts) == AddValues(headers, c, Split(value, ","), 1, ts)

\* an append after every substitution, without the containment test
AddAfterReplace(h1, c, probe, value) == MapAdd(h1, c, value)

\* if !strings.Contains(headers.Get(k), adapt(v.Value)) { headers.Add(k, adapt(v.Value)) }
AddUnlessContained(h1, c, probe, value) ==
  IF ~Contains(MapGet(h1, c), probe) THEN MapAdd(h1, c, value) ELSE h1

\* the branches of the switch that call adapt(v.Value) or
\* adapt(re.ReplaceAllString(...)): vals[i] is what the i-th call returns
editWith(action, headers, c, vals) ==
  IF action = "edit"
  THEN AddUnlessContained(MapSet(headers, c, vals[1]), c, vals[2], vals[3])
  ELSE MapAdd(headers, c, vals[1])

\* the switch of editHeaders on the canonical key c, current the value
\* headers.Get(k) returns
editSwitch(c, v, headers, current, ts) ==
  CASE v.Action = "set" \/ (v.Action = "edit" /\ current = "") ->
         [h |-> SetValues(headers, c, v.Value, ts), panic |-> FALSE]
    [] v.Action = "unset" ->
         [h |-> MapDel(headers, c), panic |-> FALSE]
    [] v.Action = "edit" /\ current # "" /\ ~ValidRegexp(v.Replace) ->
         [h |-> headers, panic |-> TRUE]
    [] v.Action = "append" \/ (v.Action = "edit" /\ current # "" /\ ValidRegexp(v.Replace)) ->
         [h |-> editWith(v.Action, headers, c,
                  [i \in 1..3 |->
                     adapt(IF i = 1 /\ v.Action = "edit"
                           THEN ReplaceAllString(v.Replace, current, v.Value)
                           ELSE v.Value, ts[i])]),
          panic |-> FALSE]
    [] OTHER -> [h |-> headers, panic |-> FALSE]

\* one iteration of the loop of editHeaders; panic: regexp.MustCompile panicked
editHeader(k, v, headers, ts) ==
  editSwitch(CanonicalMIMEHeaderKey(k), v, headers, HeaderGet(headers, k), ts)

\* a loop that an action it does not know makes return
RECURSIVE editHeadersUntilUnknown(_, _, _, _, _)
editHeadersUntilUnknown(hr, st, ord, j, ts) ==
  IF j > Len(ord) \/ st.panic
     \/ hr[ord[j]].v.Action \notin {"set", "unset", "edit", "append"} THEN st
  ELSE editHeadersUntilUnknown(hr, editHeader(hr[ord[j]].k, hr[ord[j]].v, st.h, ts),
                               ord, j + 1, ts)

RECURSIVE editHeadersFrom(_, _, _, _, _)
editHeadersFrom(hr, st, ord, j, ts) ==
  IF j > Len(ord) \/ st.panic THEN st
  ELSE editHeadersFrom(hr, editHeader(hr[ord[j]].k, hr[ord[j]].v, st.h, ts), ord, j + 1, ts)

\* the orders in which Go may visit a map of n entries
Perms(n) == {p \in [1..n -> 1..n] : \A a, b \in 1..n : a # b => p[a] # p[b]}

\* for k, v := range hr { ... }: the outcomes of all visiting orders
editHeaders(hr, headers, ts) ==
  {editHeadersFrom(hr, [h |-> headers, panic |-> FALSE], ord, 1, ts) : ord \in Perms(Len(hr))}

\* The HeaderChange revision -------------------------------------------------
HeaderChange(header, req, action, value, replace, sep) ==
  [Name |-> "", Header |-> header, Req |-> req, Value |-> value,
   Replace |-> replace, Sep |-> sep, Action |-> action]

\* the macro expansion at the head of the loop body of applyheaderChanges
ExpandValue(hc, t) ==
  IF hc.Action # "unset" /\ MatchAtoms(dateAddRe, hc.Value)
  THEN ReplaceAtoms(dateAddRe, hc.Value, DateAdd(t, FirstSubmatch(hc.Value)))
  ELSE hc.Value

\* a join that leaves the separator out
JoinNoSep(h, c, sep, value) == MapSet(h, c, MapGet(h, c) \o value)

\* Header.Set(headerChange.Header, Header.Get(headerChange.Header) + Sep + Value)
Join(h, c, sep, value) == MapSet(h, c, MapGet(h, c) \o sep \o value)

\* if !strings.Contains(Header.Get(...), Value) { Set(Get + Sep + Value) }
JoinUnlessContained(h1, c, sep, value) ==
  IF ~Contains(MapGet(h1, c), value) THEN Join(h1, c, sep, value) ELSE h1

\* the switch of applyheaderChanges on the collection h of the change's
\* side, c the canonical key and value the expanded value
changeSwitch(hc, h, c, value) ==
  IF hc.Action = "unset" THEN [h |-> MapDel(h, c), panic |-> FALSE]
  ELSE IF hc.Action = "set"
          \/ (hc.Action = "edit" /\ TrimSpace(MapGet(h, c)) = "")
          \/ (hc.Action = "append" /\ hc.Sep # "" /\ TrimSpace(MapGet(h, c)) = "")
  THEN [h |-> MapSet(h, c, value), panic |-> FALSE]
  ELSE IF hc.Action = "edit"
  THEN IF ~ValidRegexp(hc.Replace) THEN [h |-> h, panic |-> TRUE]
       ELSE [h |-> JoinUnlessContained(
                     MapSet(h, c, ReplaceAllString(hc.Replace, MapGet(h, c), value)),
                     c, hc.Sep, value),
             panic |-> FALSE]
  ELSE IF hc.Action = "append"
  THEN [h |-> IF hc.Sep # "" THEN Join(h, c, hc.Sep, value) ELSE MapAdd(h, c, value),
        panic |-> FALSE]
  ELSE [h |-> h, panic |-> FALSE]

applyheaderChange(hc, h, ts) ==
  changeSwitch(hc, h, CanonicalMIMEHeaderKey(hc.Header), ExpandValue(hc, ts[1]))

\* st with the collection of one side replaced by the outcome r of a change
WithSide(st, req, r) ==
  [st EXCEPT !.req   = IF req THEN r.h ELSE @,
             !.resp  = IF req THEN @ ELSE r.h,
             !.panic = r.panic]

\* applyheaderChanges: st holds both collections, req and resp
RECURSIVE applyheaderChanges(_, _, _, _)
applyheaderChanges(hr, st, j, ts) ==
  IF j > Len(hr) \/ st.panic THEN st
  ELSE applyheaderChanges(hr,
         WithSide(st, hr[j].Req,
                  applyheaderChange(hr[j], IF hr[j].Req THEN st.req ELSE st.resp, ts)),
         j + 1, ts)

(***************************************************************************)
(* Rule evaluation.  A pass carries st: the two header collections, the    *)
(* indices of the rules that fired (fired), applyDefault, the number of    *)
(* times the default list was applied (defaults) and whether a             *)
(* regexp.MustCompile panicked.  A walk gives the set of its outcomes.     *)
(***************************************************************************)
Rule(name, regexp, requestHeaders, responseHeaders) ==
  [Name |-> name, Regexp |-> regexp,
   RequestHeaders |-> requestHeaders, ResponseHeaders |-> responseHeaders]

ChangeRule(name, regexp, headerChanges) ==
  [Name |-> name, Regexp |-> regexp, HeaderChanges |-> headerChanges]

KV(k, v) == [k |-> k, v |-> v]

PassStart(req, resp) ==
  [req |-> req, resp |-> resp, fired |-> <<>>, applyDefault |-> TRUE,
   defaults |-> 0, panic |-> FALSE]

\* editHeaders(rule.RequestHeaders, req.Header) / (rule.ResponseHeaders, ...Header())
editSide(hr, side, st, ts) ==
  {WithSide(st, side = "request", r) :
     r \in editHeaders(hr, IF side = "request" THEN st.req ELSE st.resp, ts)}

SideHeaders(rule, side) ==
  IF side = "request" THEN rule.RequestHeaders ELSE rule.ResponseHeaders

\* applyDefault = false after a rule fired; fired records the rule
Fired(st, i) == [st EXCEPT !.applyDefault = FALSE, !.fired = Append(@, i)]

\* the condition of the if of the sentinel revision's loops
SentinelFires(rule, path, applyDefault) ==
  (rule.Regexp = "NO_MATCH" /\ applyDefault) \/ MatchString(rule.Regexp, path)

\* the loop over the rules of the sentinel revision
RECURSIVE WalkSentinel(_, _, _, _, _, _)
WalkSentinel(rules, path, side, st, i, ts) ==
  IF i > Len(rules) \/ st.panic THEN {st}
  ELSE IF ~ValidRegexp(rules[i].Regexp) THEN {[st EXCEPT !.panic = TRUE]}
  ELSE IF SentinelFires(rules[i], path, st.applyDefault)
       THEN UNION {WalkSentinel(rules, path, side, Fired(st1, i), i + 1, ts) :
                     st1 \in editSide(SideHeaders(rules[i], side), side, st, ts)}
       ELSE WalkSentinel(rules, path, side, st, i + 1, ts)

\* the loop over the rules of the revision with defaultHeaders: it breaks
RECURSIVE WalkBreak(_, _, _, _, _, _)
WalkBreak(rules, path, side, st, i, ts) ==
  IF i > Len(rules) \/ st.panic THEN {st}
  ELSE IF ~ValidRegexp(rules[i].Regexp) THEN {[st EXCEPT !.panic = TRUE]}
  ELSE IF MatchString(rules[i].Regexp, path)
       THEN {Fired(st1, i) : st1 \in editSide(SideHeaders(rules[i], side), side, st, ts)}
       ELSE WalkBreak(rules, path, side, st, i + 1, ts)

\* the loop over the rules of the HeaderChange revision
RECURSIVE WalkChanges(_, _, _, _, _)
WalkChanges(rules, path, st, i, ts) ==
  IF i > Len(rules) \/ st.panic THEN {st}
  ELSE IF ~ValidRegexp(rules[i].Regexp) THEN {[st EXCEPT !.panic = TRUE]}
  ELSE IF MatchString(rules[i].Regexp, path)
       THEN WalkChanges(rules, path,
              Fired(applyheaderChanges(rules[i].HeaderChanges, st, 1, ts), i), i + 1, ts)
       ELSE WalkChanges(rules, path, st, i + 1, ts)

\* a gate that forgets applyDefault
DefaultsApplyUngated(defaultHeaders, applyDefault) ==
  Len(defaultHeaders) > 0

\* if len(defaultHeaders) > 0 && applyDefault
DefaultsApply(defaultHeaders, applyDefault) ==
  Len(defaultHeaders) > 0 /\ applyDefault

\* the default list after the loop, revision with defaultHeaders
DefaultsBreak(defaultHeaders, side, st, ts) ==
  IF ~st.panic /\ DefaultsApply(defaultHeaders, st.applyDefault)
  THEN {[st1 EXCEPT !.defaults = @ + 1] : st1 \in editSide(defaultHeaders, side, st, ts)}
  ELSE {st}

\* the default list after the loop, HeaderChange revision
DefaultsChanges(defaultHeaders, st, ts) ==
  IF ~st.panic /\ DefaultsApply(defaultHeaders, st.applyDefault)
  THEN {[applyheaderChanges(defaultHeaders, st, 1, ts) EXCEPT !.defaults = @ + 1]}
  ELSE {st}

\* the outcomes of one evaluation pass of the revision v over the
\* configuration cfg
Pass(v, cfg, path, side, req, resp, ts) ==
  CASE v = "sentinel" ->
         WalkSentinel(cfg.Rules, path, side, PassStart(req, resp), 1, ts)
    [] v = "break" ->
         UNION {DefaultsBreak(cfg.DefaultHeaders, side, st, ts) :
                  st \in WalkBreak(cfg.Rules, path, side, PassStart(req, resp), 1, ts)}
    [] v = "changes" ->
         UNION {DefaultsChanges(cfg.DefaultHeaders, st, ts) :
                  st \in WalkChanges(cfg.Rules, path, PassStart(req, resp), 1, ts)}

(***************************************************************************)
(* Configurations, paths and the downstream handler's inputs               *)
(***************************************************************************)
\* the rule list of TestRegexpRulesAndResponse, shortened
SentinelRules ==
  << Rule("01 js", "js$",
          << KV("X-Req", Header("set", "js", "")) >>,
          << KV("Cache-Test", Header("set", "LOW", "")),
             KV("Cache-Control", Header("set", "public, max-age=60", "")) >>),
     Rule("02 only if no match", "NO_MATCH",
          << KV("X-Req", Header("set", "none", "")) >>,
          << KV("Cache-Test", Header("set", "DEFAULT", "")),
             KV("Pragma", Header("set", "no-cache", "")) >>),
     Rule("03 c", "^/c",
          << KV("X-Req", Header("set", "c", "")) >>,
          << KV("Cache-Test", Header("set", "C", "")),
             KV("Expires", Header("set", "@DT_ADD#60@", "")) >>),
     Rule("04 never used", "NO_MATCH",
          << KV("X-Req", Header("set", "ERROR", "")) >>,
          << KV("Cache-Test", Header("set", "ERROR", "")) >>) >>

BreakRules ==
  << Rule("01 js", "js$",
          << KV("X-Req", Header("set", "js", "")) >>,
          << KV("Cache-Test", Header("set", "LOW", "")),
             KV("Cache-Control", Header("set", "public, max-age=60", "")) >>),
     Rule("02 c", "^/c",
          << KV("X-Req", Header("set", "c", "")) >>,
          << KV("Cache-Test", Header("set", "C", "")) >>) >>

ChangesRules ==
  << ChangeRule("01 js", "js$",
       << HeaderChange("X-Req", TRUE, "set", "js", "", ""),
          HeaderChange("Cache-Test", FALSE, "set", "LOW", "", "") >>),
     ChangeRule("02 c", "^/c",
       << HeaderChange("Cache-Test", FALSE, "set", "C", "", ""),
          HeaderChange("Expires", FALSE, "set", "@DT_ADD#60@", "", "") >>) >>

Variants == {"sentinel", "break", "changes"}

Configs(v) ==
  CASE v = "sentinel" -> { [Rules |-> SentinelRules] }
    [] v = "break" ->
         { [Rules |-> BreakRules,
            DefaultHeaders |-> << KV("Cache-Test", Header("set", "DEFAULT", "")) >>],
           [Rules |-> BreakRules, DefaultHeaders |-> << >>] }
    [] v = "changes" ->
         { [Rules |-> ChangesRules,
            DefaultHeaders |-> << HeaderChange("X-Req", TRUE, "set", "none", "", ""),
                                  HeaderChange("Cache-Test", FALSE, "set", "DEFAULT", "", "") >>],
           [Rules |-> ChangesRules, DefaultHeaders |-> << >>] }

\* request paths; only the sentinel revision gives NO_MATCH a meaning
Paths(v) ==
  {"/a.js", "/b", "/c.js", "/c"}
    \cup (IF v = "sentinel" THEN {"/NO_MATCH", "/c/NO_MATCH.js"} ELSE {})

\* the request headers the client sent
RequestHeaders0 == {EmptyHeader, [k \in {"X-Req"} |-> <<"client">>]}

StatusOK == 200

StatusCodes == {StatusOK, 404}

\* the byte slices the downstream handler writes
Bodies == {"a", "bc"}

\* the headers the downstream handler sets on the response
HandlerHeaders == {<<"Cache-Test", "handler">>, <<"Content-Length", "1">>}

\* how many calls the downstream handler makes in one cycle
MaxCalls == 3

\* the latest instant of the clock
MaxNow == 1

(***************************************************************************)
(* The request/response cycle                                              *)
(***************************************************************************)
VARIABLES
  variant,    \* the revision of the engine
  config,     \* the Config given to New
  path,       \* req.URL.Path
  reqHeader,  \* req.Header
  now,        \* the clock, in seconds
  pc,         \* "start", "handler" (inside next.ServeHTTP), "done", "panic"
  wrapper,    \* the responseWriter: wroteHeader, buffer, path
  sink,       \* the real http.ResponseWriter
  calls,      \* calls made by the downstream handler
  hist        \* what happened so far in the cycle (not read by the program)

vars == <<variant, config, path, reqHeader, now, pc, wrapper, sink, calls, hist>>

HasWrapper == variant \in {"sentinel", "break"}

\* the instants the time.Now() reads of one pass return
Reads == <<now, now, now>>

\* http.ResponseWriter.WriteHeader of the real sink: the first call commits
\* the status and the header collection as it is then
SinkWriteHeader(sk, statusCode) ==
  IF sk.committed THEN sk
  ELSE [sk EXCEPT !.committed = TRUE, !.status = statusCode, !.sent = sk.header]

\* http.ResponseWriter.Write of the real sink
SinkWrite(sk, p) ==
  [SinkWriteHeader(sk, StatusOK) EXCEPT !.writes = Append(@, p)]

\* http.Flusher.Flush of the real sink
SinkFlush(sk) == SinkWriteHeader(sk, StatusOK)

\* hist after a step that takes the sink from sk to sk2, evaluated telling
\* whether the response-side changes have been applied by then
Committing(h, sk, sk2, evaluated) ==
  IF ~sk.committed /\ sk2.committed THEN [h EXCEPT !.evalAtCommit = evaluated] ELSE h

Init ==
  /\ variant \in Variants
  /\ config \in Configs(variant)
  /\ path \in Paths(variant)
  /\ reqHeader \in RequestHeaders0
  /\ now = 0
  /\ pc = "start"
  /\ wrapper = [wroteHeader |-> FALSE, buffer |-> "", path |-> ""]
  /\ sink \in {[header |-> EmptyHeader, committed |-> FALSE, status |-> 0,
                sent |-> EmptyHeader, writes |-> <<>>, flusher |-> f] : f \in BOOLEAN}
  /\ calls = 0
  /\ hist = [reqHeader0 |-> reqHeader, reqFired |-> <<>>, reqDefaults |-> 0,
             respFired |-> <<>>, respDefaults |-> 0, respPasses |-> 0,
             evalAtCommit |-> FALSE, handlerBytes |-> "", handlerSet |-> EmptyHeader,
             defaultSides |-> {}]

\* the clock advances
Tick ==
  /\ pc \in {"start", "handler"}
  /\ now < MaxNow
  /\ now' = now + 1
  /\ UNCHANGED <<variant, config, path, reqHeader, pc, wrapper, sink, calls, hist>>

\* ServeHTTP up to the call of h.next.ServeHTTP (revisions with a wrapper)
ServeHTTP ==
  /\ pc = "start"
  /\ HasWrapper
  /\ \E st \in Pass(variant, config, path, "request", reqHeader, sink.header, Reads) :
       /\ reqHeader' = st.req
       /\ pc' = IF st.panic THEN "panic" ELSE "handler"
       /\ wrapper' = [wroteHeader |-> FALSE, buffer |-> "", path |-> path]
       /\ hist' = [hist EXCEPT !.reqFired = st.fired, !.reqDefaults = st.defaults,
                               !.defaultSides = IF st.defaults > 0
                                                THEN @ \cup {"request"} ELSE @]
  /\ UNCHANGED <<variant, config, path, now, sink, calls>>

\* ServeHTTP of the HeaderChange revision up to the call of a.next.ServeHTTP
ServeHTTPChanges ==
  /\ pc = "start"
  /\ variant = "changes"
  /\ \E st \in Pass(variant, config, path, "both", reqHeader, sink.header, Reads) :
       /\ reqHeader' = st.req
       /\ sink' = [sink EXCEPT !.header = st.resp]
       /\ pc' = IF st.panic THEN "panic" ELSE "handler"
       /\ hist' = [hist EXCEPT !.reqFired = st.fired, !.reqDefaults = st.defaults,
                               !.respFired = st.fired, !.respDefaults = st.defaults,
                               !.respPasses = 1]
  /\ UNCHANGED <<variant, config, path, now, wrapper, calls>>

\* a WriteHeader that does not record that it ran
WriteHeaderUnrecorded(statusCode, st) ==
  LET sk1 == [sink EXCEPT !.header = HeaderDel(st.resp, "Content-Length")]
      sk2 == SinkWriteHeader(sk1, statusCode)
      h1  == [hist EXCEPT !.respFired = st.fired, !.respDefaults = st.defaults,
                          !.respPasses = @ + 1]
  IN [wrapper |-> wrapper, sink |-> sk2,
      hist |-> Committing(h1, sink, sk2, TRUE), panic |-> st.panic]

\* responseWriter.WriteHeader(statusCode) with st the outcome of its rule
\* walk: the wrapper, the sink and hist after the call
WriteHeaderResult(statusCode, st) ==
  LET sk1 == [sink EXCEPT !.header = HeaderDel(st.resp, "Content-Length")]
      sk2 == SinkWriteHeader(sk1, statusCode)
      h1  == [hist EXCEPT !.respFired = st.fired, !.respDefaults = st.defaults,
                          !.respPasses = @ + 1,
                          !.defaultSides = IF st.defaults > 0
                                           THEN @ \cup {"response"} ELSE @]
  IN IF st.panic
     THEN [wrapper |-> wrapper, sink |-> [sink EXCEPT !.header = st.resp],
           hist |-> hist, panic |-> TRUE]
     ELSE [wrapper |-> [wrapper EXCEPT !.wroteHeader = TRUE], sink |-> sk2,
           hist |-> Committing(h1, sink, sk2, TRUE), panic |-> FALSE]

\* a rule walk that reads the path of the request as it is at WriteHeader
ResponsePassOnRequestPath ==
  Pass(variant, config, path, "response", reqHeader, sink.header, Reads)

\* the outcomes of the rule walk of responseWriter.WriteHeader
ResponsePass ==
  Pass(variant, config, wrapper.path, "response", reqHeader, sink.header, Reads)

\* the downstream handler calls WriteHeader on the wrapper
WriteHeader ==
  /\ pc = "handler"
  /\ HasWrapper
  /\ calls < MaxCalls
  /\ \E st \in ResponsePass : \E statusCode \in StatusCodes :
       LET r == WriteHeaderResult(statusCode, st)
       IN /\ wrapper' = r.wrapper
          /\ sink' = r.sink
          /\ hist' = r.hist
          /\ pc' = IF r.panic THEN "panic" ELSE pc
  /\ calls' = calls + 1
  /\ UNCHANGED <<variant, config, path, reqHeader, now>>

\* the downstream handler calls Write on the wrapper
Write ==
  /\ pc = "handler"
  /\ HasWrapper
  /\ calls < MaxCalls
  /\ IF ~wrapper.wroteHeader
     THEN \E st \in ResponsePass : \E p \in Bodies :
            LET r == WriteHeaderResult(StatusOK, st)
            IN /\ wrapper' = IF r.panic THEN r.wrapper
                             ELSE [r.wrapper EXCEPT !.buffer = @ \o p]
               /\ sink' = r.sink
               /\ hist' = IF r.panic THEN r.hist
                          ELSE [r.hist EXCEPT !.handlerBytes = @ \o p]
               /\ pc' = IF r.panic THEN "panic" ELSE pc
     ELSE \E p \in Bodies :
            /\ wrapper' = [wrapper EXCEPT !.buffer = @ \o p]
            /\ hist' = [hist EXCEPT !.handlerBytes = @ \o p]
            /\ UNCHANGED <<sink, pc>>
  /\ calls' = calls + 1
  /\ UNCHANGED <<variant, config, path, reqHeader, now>>

\* the downstream handler calls Flush on the wrapper
Flush ==
  /\ pc = "handler"
  /\ HasWrapper
  /\ calls < MaxCalls
  /\ LET sk2 == IF sink.flusher THEN SinkFlush(sink) ELSE sink
     IN /\ sink' = sk2
        /\ hist' = Committing(hist, sink, sk2, hist.respPasses > 0)
  /\ calls' = calls + 1
  /\ UNCHANGED <<variant, config, path, reqHeader, now, pc, wrapper>>

\* the downstream handler sets a header through Header(), which the wrapper
\* takes from the embedded real sink
HandlerSetHeader ==
  /\ pc = "handler"
  /\ calls < MaxCalls
  /\ \E kv \in HandlerHeaders :
       /\ sink' = [sink EXCEPT !.header = HeaderSet(@, kv[1], kv[2])]
       /\ hist' = IF sink.committed THEN hist
                  ELSE [hist EXCEPT !.handlerSet = HeaderSet(@, kv[1], kv[2])]
  /\ calls' = calls + 1
  /\ UNCHANGED <<variant, config, path, reqHeader, now, pc, wrapper>>

\* h.next.ServeHTTP returns: ServeHTTP writes the buffer to the real sink
Return ==
  /\ pc = "handler"
  /\ HasWrapper
  /\ LET sk2 == SinkWrite(sink, wrapper.buffer)
     IN /\ sink' = sk2
        /\ hist' = Committing(hist, sink, sk2, hist.respPasses > 0)
  /\ pc' = "done"
  /\ UNCHANGED <<variant, config, path, reqHeader, now, wrapper, calls>>

\* the HeaderChange revision hands the real sink to the downstream handler
DirectWriteHeader ==
  /\ pc = "handler"
  /\ variant = "changes"
  /\ calls < MaxCalls
  /\ \E statusCode \in StatusCodes :
       LET sk2 == SinkWriteHeader(sink, statusCode)
       IN /\ sink' = sk2
          /\ hist' = Committing(hist, sink, sk2, TRUE)
  /\ calls' = calls + 1
  /\ UNCHANGED <<variant, config, path, reqHeader, now, pc, wrapper>>

DirectWrite ==
  /\ pc = "handler"
  /\ variant = "changes"
  /\ calls < MaxCalls
  /\ \E p \in Bodies :
       LET sk2 == SinkWrite(sink, p)
       IN /\ sink' = sk2
          /\ hist' = [Committing(hist, sink, sk2, TRUE) EXCEPT !.handlerBytes = @ \o p]
  /\ calls' = calls + 1
  /\ UNCHANGED <<variant, config, path, reqHeader, now, pc, wrapper>>

DirectFlush ==
  /\ pc = "handler"
  /\ variant = "changes"
  /\ calls < MaxCalls
  /\ LET sk2 == IF sink.flusher THEN SinkFlush(sink) ELSE sink
     IN /\ sink' = sk2
        /\ hist' = Committing(hist, sink, sk2, TRUE)
  /\ calls' = calls + 1
  /\ UNCHANGED <<variant, config, path, reqHeader, now, pc, wrapper>>

\* a.next.ServeHTTP returns and ServeHTTP of the HeaderChange revision ends
ReturnChanges ==
  /\ pc = "handler"
  /\ variant = "changes"
  /\ pc' = "done"
  /\ UNCHANGED <<variant, config, path, reqHeader, now, wrapper, sink, calls, hist>>

Next ==
  \/ Tick
  \/ ServeHTTP
  \/ ServeHTTPChanges
  \/ WriteHeader
  \/ Write
  \/ Flush
  \/ HandlerSetHeader
  \/ Return
  \/ DirectWriteHeader
  \/ DirectWrite
  \/ DirectFlush
  \/ ReturnChanges

Spec == Init /\ [][Next]_vars

(***************************************************************************)
(* The passes made so far in the cycle, as hist records them               *)
(***************************************************************************)
Range(f) == {f[i] : i \in 1..Len(f)}

\* the request-side pass is over: ServeHTTP has reached the downstream call
RequestPassDone == pc \in {"handler", "done"}

\* a response-side pass was made
ResponsePassDone == hist.respPasses > 0

\* the lists of the rules that fired, one list for each pass made (the last
\* one on the response side)
PassesFired ==
  (IF RequestPassDone THEN {hist.reqFired} ELSE {})
    \cup (IF ResponsePassDone THEN {hist.respFired} ELSE {})

\* rule.Regexp == "NO_MATCH"
IsSentinel(rule) == rule.Regexp = "NO_MATCH"

(***************************************************************************)
(* Rule gating                                                             *)
(***************************************************************************)
\* C1: in every pass, on the request side and on the response side, a rule
\* whose pattern is NO_MATCH fires if and only if no earlier rule of that
\* pass has fired, whatever the path is.
C1_SentinelFiresIffNoEarlierFiring ==
  \A fired \in PassesFired : \A i \in 1..Len(config.Rules) :
    IsSentinel(config.Rules[i]) =>
      ((i \in Range(fired)) <=> (\A j \in Range(fired) : j >= i))

\* C2: among several NO_MATCH rules at most one fires in a pass, and it is
\* the first of them in declaration order; a later sentinel never fires.
C2_OnlyFirstSentinelFires ==
  \A fired \in PassesFired : \A i \in Range(fired) :
    IsSentinel(config.Rules[i]) =>
      \A j \in 1..(i - 1) : ~IsSentinel(config.Rules[j])

\* C3: evaluation never stops at the first firing: in every pass each rule
\* that is no sentinel fires if and only if the path matches its pattern,
\* whatever fired before it, and the rules fire in declaration order.
C3_EveryMatchingRuleFires ==
  \A fired \in PassesFired :
    /\ \A i \in 1..Len(config.Rules) :
         ~IsSentinel(config.Rules[i]) =>
           ((i \in Range(fired)) <=> MatchString(config.Rules[i].Regexp, path))
    /\ \A a, b \in 1..Len(fired) : a < b => fired[a] < fired[b]

\* how often a pass in which the rules of fired fired has to apply the
\* default list
DefaultsDue(fired) ==
  IF fired = <<>> /\ Len(config.DefaultHeaders) > 0 THEN 1 ELSE 0

\* C4: in each pass the default list is applied exactly once when no rule
\* fired in that pass and the list is not empty, and not at all when a rule
\* fired.
C4_DefaultsOnceIffNoRuleFired ==
  "DefaultHeaders" \in DOMAIN config =>
    /\ RequestPassDone => hist.reqDefaults = DefaultsDue(hist.reqFired)
    /\ ResponsePassDone => hist.respDefaults = DefaultsDue(hist.respFired)

\* both passes of a cycle applied the default list, no rule having fired
C4_DefaultsApplied ==
  /\ "DefaultHeaders" \in DOMAIN config
  /\ RequestPassDone /\ hist.reqFired = <<>> /\ hist.reqDefaults = 1
  /\ ResponsePassDone /\ hist.respFired = <<>> /\ hist.respDefaults = 1

(***************************************************************************)
(* The response path                                                       *)
(***************************************************************************)
\* C5: whatever calls the downstream handler makes (WriteHeader, Write,
\* Flush, or none), the response-side rule evaluation has been applied to
\* the real sink's headers by the time the real sink commits them.
C5_EvaluatedBeforeCommit ==
  sink.committed => hist.evalAtCommit

\* C6: no byte the handler wrote reaches the real sink before the handler
\* has returned; after it returned the real sink has received, in one
\* write, the concatenation of all the handler wrote, and nothing twice.
C6_BodyBufferedThenWrittenOnce ==
  /\ pc = "handler" => sink.writes = <<>>
  /\ pc = "done" => sink.writes = <<hist.handlerBytes>>

(***************************************************************************)
(* Which rule decides a header                                             *)
(***************************************************************************)
\* the changes rule carries for side: the canonical key, the action and
\* the configured value
RuleChanges(rule, side) ==
  IF variant = "changes"
  THEN {[c |-> CanonicalMIMEHeaderKey(hc.Header), Action |-> hc.Action, Value |-> hc.Value] :
          hc \in {x \in Range(rule.HeaderChanges) : x.Req = (side = "request")}}
  ELSE {[c |-> CanonicalMIMEHeaderKey(kv.k), Action |-> kv.v.Action, Value |-> kv.v.Value] :
          kv \in Range(SideHeaders(rule, side))}

\* the values the set ch stores under its key at the instant t
StoredBySet(ch, t) ==
  IF variant = "changes" THEN <<ExpandValue(ch, t)>>
  ELSE SetValues(EmptyHeader, ch.c, ch.Value, <<t, t, t>>)[ch.c]

\* the changes the rules of fired carry for side, each with the index i of
\* its rule
FiredChanges(fired, side) ==
  UNION {{[i |-> i, c |-> ch.c, Action |-> ch.Action, Value |-> ch.Value] :
            ch \in RuleChanges(config.Rules[i], side)} : i \in Range(fired)}

\* the headers the rules of fired change on side
Touched(fired, side) == {x.c : x \in FiredChanges(fired, side)}

\* among the changes all, x is a set and the one change the last rule that
\* changes x's header makes to it
Decides(x, all) ==
  /\ x.Action = "set"
  /\ \A y \in all : y.c = x.c => (y.i < x.i \/ y = x)

\* in the collection h every header, those of deleted apart, that a set of
\* all decides holds what that set stores at an instant of ts
LastSetWinsIn(all, h, ts, deleted) ==
  \A x \in all :
    (x.c \notin deleted /\ Decides(x, all)) =>
      /\ x.c \in DOMAIN h
      /\ \E t \in ts : h[x.c] = StoredBySet(x, t)

LastSetWins(fired, side, h, ts, deleted) ==
  LastSetWinsIn(FiredChanges(fired, side), h, ts, deleted)

\* C7: when several rules fire in one pass, a header they set holds after
\* the pass the value of the last fired rule that sets it, and a header only
\* an earlier fired rule sets keeps that rule's value, be that rule a
\* sentinel or a regular match.  (WriteHeader deletes Content-Length after
\* its pass.)
C7_LastFiredRuleWins ==
  [][/\ (pc = "start" /\ pc' = "handler") =>
          LastSetWins(hist'.reqFired, "request", reqHeader', {now}, {})
     /\ (hist'.respPasses # hist.respPasses /\ pc' # "panic") =>
          LastSetWins(hist'.respFired, "response", sink'.header, {now},
                      IF HasWrapper THEN {"Content-Length"} ELSE {})
    ]_vars

\* a sentinel and then a regular rule fired on the response side: the
\* header both set went out with the regular rule's value, the header only
\* the sentinel sets with the sentinel's
C7_RegularOverridesSentinel ==
  /\ hist.respPasses = 1 /\ sink.committed /\ hist.evalAtCommit
  /\ \E x, y, z \in FiredChanges(hist.respFired, "response") :
       /\ IsSentinel(config.Rules[y.i]) /\ ~IsSentinel(config.Rules[x.i])
       /\ y.i < x.i /\ y.c = x.c /\ y.Action = "set"
       /\ Decides(x, FiredChanges(hist.respFired, "response"))
       /\ sink.sent[x.c] = StoredBySet(x, 0)
       /\ z.i = y.i /\ Decides(z, FiredChanges(hist.respFired, "response"))
       /\ sink.sent[z.c] = StoredBySet(z, 0)

(***************************************************************************)
(* The two sides                                                           *)
(***************************************************************************)
\* the request headers the request-side pass may leave, the clock being
\* at most now
RequestPassOutcomes ==
  UNION {{st.req : st \in Pass(variant, config, path,
                               IF HasWrapper THEN "request" ELSE "both",
                               hist.reqHeader0, EmptyHeader, <<t, t, t>>)} :
           t \in 0..now}

\* C8: at the moment the downstream handler starts, the request-side
\* changes of the fired rules have been applied to the request headers and
\* no response-side change has been applied to the response headers.
C8_ResponseUntouchedAtHandlerStart ==
  (pc = "handler" /\ calls = 0) =>
    /\ reqHeader \in RequestPassOutcomes
    /\ hist.respPasses = 0
    /\ sink.header = EmptyHeader

\* C9: if the handler put a value for a header into the response headers
\* before they were finalized and a fired rule carries a response-side set
\* for that header, the headers forwarded to the real sink hold the rule's
\* value.
C9_RuleOverridesHandler ==
  sink.committed =>
    LastSetWins(hist.respFired, "response", sink.sent, 0..now,
                Touched(hist.respFired, "response") \ DOMAIN hist.handlerSet)

\* the lists of changes the configuration declares for side: those of the
\* rules and the default list
SideLists(side) ==
  {SideHeaders(config.Rules[i], side) : i \in 1..Len(config.Rules)}
    \cup (IF "DefaultHeaders" \in DOMAIN config THEN {config.DefaultHeaders} ELSE {})

\* the changes the configuration of the HeaderChange revision declares
AllChanges ==
  UNION {Range(config.Rules[i].HeaderChanges) : i \in 1..Len(config.Rules)}
    \cup Range(config.DefaultHeaders)

\* C10: a change declared for the request side leaves the response headers
\* as they are and a change declared for the response side leaves the
\* request headers as they are, for the changes of the rules and for the
\* default changes alike: no list of changes reaches both collections.
C10_SidesAreSeparate ==
  /\ HasWrapper =>
       \A side \in {"request", "response"} : \A hr \in SideLists(side) :
         \A st \in editSide(hr, side, PassStart(reqHeader, sink.header), Reads) :
           IF side = "request" THEN st.resp = sink.header ELSE st.req = reqHeader
  /\ ~HasWrapper =>
       \A hc \in AllChanges :
         LET st == applyheaderChanges(<<hc>>, PassStart(reqHeader, sink.header), 1, Reads)
         IN IF hc.Req THEN st.resp = sink.header ELSE st.req = reqHeader
  /\ Cardinality(hist.defaultSides) <= 1

(***************************************************************************)
(* One change on one collection.  ChangeSpec calls the engine of a         *)
(* revision with a single header change on the request headers: config is  *)
(* the change, reqHeader the collection, calls the number of calls made    *)
(* and hist remembers the collection and the clock of the latest call.     *)
(***************************************************************************)
\* the spellings of the header name in the configuration
ChangeKeys == {"X-A", "x-a", "x-A"}

\* the actions of a configuration, with one the switch does not know
ChangeActions == {"set", "unset", "edit", "append", "replace"}

ChangeValues == {"m=1", "a, b", " v ", "@DT_ADD#60@", "@DT_ADD#1@/@DT_ADD#2@"}

\* replace patterns: one matching "m=0", one matching none of the stored
\* values, one regexp.MustCompile panics on
ChangeReplaces == {"m=\\d+", "z+", "("}

ChangeSeps == {"", ", "}

\* the values stored under X-A before the call, <<>> for an absent header
Occurrences ==
  {<<>>, <<"">>, <<"foo">>, <<"m=1">>, <<"x, m=0, y">>, <<"m=0", "foo">>,
   <<"@DT_ADD#5@m=0">>}

\* a collection as net/http builds it, keyed by canonical names
BagOf(vals) ==
  [k \in (IF vals = <<>> THEN {} ELSE {"X-A"}) \cup {"Other"} |->
     IF k = "X-A" THEN vals ELSE <<"o">>]

\* the changes a configuration of revision v can hold: Header has no Sep
ChangeInputs(v) ==
  {HeaderChange(k, TRUE, a, val, r, sep) :
     k \in ChangeKeys, a \in ChangeActions, val \in ChangeValues,
     r \in ChangeReplaces, sep \in IF v = "changes" THEN ChangeSeps ELSE {""}}

MaxApplies == 2

\* another spelling of the header name k: a second key of the same map
OtherKey(k) == IF k = "X-A" THEN "x-a" ELSE "X-A"

\* what the list of a rule holds beside the change hc: nothing, or a second
\* change on the same header, with an action the switch does not know or a
\* set; lists of two changes are called once, as the first call (n = 0)
SecondChanges(hc, n) ==
  {<<>>} \cup {<<HeaderChange(OtherKey(hc.Header), TRUE, a, "zz", "", "")>> :
                 a \in IF n = 0 THEN {"replace", "set"} ELSE {}}

\* for _, headerChange := range hr: headerChange is a copy of the element, so
\* the element of the list keeps its value when the loop assigns the
\* expanded text to headerChange.Value
RangeByReference(hc, expanded) == [hc EXCEPT !.Value = expanded]

RangeElement(hc, expanded) == hc

\* the map entry of the revisions with a Header struct for the change hc
AsHeader(hc) == KV(hc.Header, Header(hc.Action, hc.Value, hc.Replace))

ChangeInit ==
  /\ variant \in Variants
  /\ config \in ChangeInputs(variant)
  /\ path = "/"
  /\ reqHeader \in {BagOf(vals) : vals \in Occurrences}
  /\ now = 0
  /\ pc = "start"
  /\ wrapper = [wroteHeader |-> FALSE, buffer |-> "", path |-> ""]
  /\ sink = [header |-> EmptyHeader, committed |-> FALSE, status |-> 0,
             sent |-> EmptyHeader, writes |-> <<>>, flusher |-> FALSE]
  /\ calls = 0
  /\ hist = [before |-> reqHeader, at |-> now, second |-> <<>>, config0 |-> config]

\* the state after a call on the list of config and second that left the
\* collection h
Called(h, panic, second) ==
  /\ reqHeader' = h
  /\ pc' = IF panic THEN "panic" ELSE "done"
  /\ calls' = calls + 1
  /\ hist' = [hist EXCEPT !.before = reqHeader, !.at = now, !.second = second]
  /\ UNCHANGED <<variant, path, now, wrapper, sink>>

\* the map of a rule: the entry of config and the entries of second
AsHeaders(second) == <<AsHeader(config)>> \o [i \in 1..Len(second) |-> AsHeader(second[i])]

\* editHeaders(rule.RequestHeaders, req.Header) with the map of config and
\* second, visited in any order
CallEditHeaders ==
  /\ HasWrapper
  /\ pc \in {"start", "done"}
  /\ calls < MaxApplies
  /\ hist.second = <<>>
  /\ \E second \in SecondChanges(config, calls) :
       \E st \in editHeaders(AsHeaders(second), reqHeader, Reads) :
          Called(st.h, st.panic, second)
  /\ UNCHANGED config

CalledChanges(st, second) == Called(st.req, st.panic, second)

\* applyheaderChanges(rw, req, headerChanges) with the list of config and
\* second, in the order of the list
CallApplyHeaderChanges ==
  /\ variant = "changes"
  /\ pc \in {"start", "done"}
  /\ calls < MaxApplies
  /\ hist.second = <<>>
  /\ \E second \in SecondChanges(config, calls) :
       CalledChanges(applyheaderChanges(<<config>> \o second,
                                        PassStart(reqHeader, sink.header), 1, Reads),
                     second)
  /\ config' = RangeElement(config, ExpandValue(config, now))

ChangeNext ==
  \/ Tick
  \/ CallEditHeaders
  \/ CallApplyHeaderChanges

ChangeSpec == ChangeInit /\ [][ChangeNext]_vars

(***************************************************************************)
(* Claims about one change                                                 *)
(***************************************************************************)
\* the occurrences of the header stored under the key c, in order
Occ(h, c) == IF c \in DOMAIN h THEN h[c] ELSE <<>>

\* the key the change of config acts on
ChangedKey == CanonicalMIMEHeaderKey(config.Header)

\* a call with the change of config alone has been made and it returned
CallDone == calls > 0 /\ hist.second = <<>> /\ pc = "done"

\* the action of the latest call
Did(action) == CallDone /\ config.Action = action

\* what the revision makes of the text val at the clock of the latest call
Expanded(val) ==
  IF variant = "changes" THEN ExpandValue([config EXCEPT !.Value = val], hist.at)
  ELSE adapt(val, hist.at)

\* C11: after a set change on header H, whatever the value (a value with
\* commas included), the collection holds exactly one occurrence of H, the
\* macro-expanded value, and no earlier occurrence of H.
C11_SetStoresOneOccurrence ==
  Did("set") => Occ(reqHeader, ChangedKey) = <<Expanded(config.Value)>>

\* the items of a comma-separated value, each trimmed and expanded
Items(value) ==
  LET datas == Split(value, ",")
  IN [i \in 1..Len(datas) |-> Expanded(TrimSpace(datas[i]))]

\* C12: a set change whose value is a comma-separated list leaves one
\* occurrence of the header per item, in order, each trimmed of surrounding
\* whitespace, and no earlier occurrence.
C12_SetSplitsCommaList ==
  (Did("set") /\ Contains(config.Value, ",")) =>
     Occ(reqHeader, ChangedKey) = Items(config.Value)

\* Header.Get of the changed header before the latest call
First == MapGet(hist.before, ChangedKey)

\* the latest call was an edit of a header that was present and not empty
EditedPresent == Did("edit") /\ First # ""

\* the replace pattern matches the content the edit read
Matched == MatchString(config.Replace, First)

\* the content the edit read with value substituted for every match
Replaced ==
  IF variant = "changes"
  THEN ReplaceAllString(config.Replace, First, Expanded(config.Value))
  ELSE adapt(ReplaceAllString(config.Replace, First, config.Value), hist.at)

\* C13: an edit change on a present header whose content matches the replace
\* pattern substitutes value for every match and changes nothing else of the
\* header: the other occurrences of the name are kept and nothing is appended.
C13_EditReplacesAndKeepsTheRest ==
  (EditedPresent /\ Matched) =>
     Occ(reqHeader, ChangedKey) = <<Replaced>> \o Tail(Occ(hist.before, ChangedKey))

\* C14: an edit change on a present, non-empty header appends the value if
\* and only if the replace pattern does not match the current content; on a
\* match the matched text is replaced and nothing is appended.
C14_EditAppendsIffNoMatch ==
  EditedPresent => ((Occ(reqHeader, ChangedKey) # <<Replaced>>) <=> ~Matched)

\* C15: an edit change on a present header whose content the replace pattern
\* does not match leaves the single value "content + sep + value".
C15_EditNoMatchConcatenates ==
  (EditedPresent /\ ~Matched) =>
     Occ(reqHeader, ChangedKey) = <<First \o config.Sep \o Expanded(config.Value)>>

\* the outcome of the change hc on the collection h at the clock t
ChangeOutcome(hc, h, t) ==
  IF variant = "changes" THEN applyheaderChange(hc, h, <<t, t, t>>)
  ELSE editHeader(hc.Header, Header(hc.Action, hc.Value, hc.Replace), h, <<t, t, t>>)

\* C16: on a collection where header H is absent or empty, edit(H, value,
\* replace) leaves the collection exactly as set(H, value) leaves it,
\* whatever replace is (a pattern that does not compile included).
C16_EditOfMissingIsSet ==
  (calls > 0 /\ hist.second = <<>> /\ config.Action = "edit"
     /\ (ChangedKey \notin DOMAIN hist.before \/ hist.before[ChangedKey][1] = "")) =>
     /\ pc = "done"
     /\ reqHeader = ChangeOutcome([config EXCEPT !.Action = "set"], hist.before, hist.at).h

\* an edit with a pattern that does not compile created the header from a
\* comma-separated value
C16_EditCreatedHeader ==
  /\ Did("edit")
  /\ config.Replace = "("
  /\ config.Value = "a, b"
  /\ ChangedKey \notin DOMAIN hist.before
  /\ ChangedKey \in DOMAIN reqHeader

\* C17 as stated: an append change with a non-empty separator leaves the
\* single value "existing value + separator + value" when the header is
\* present, and exactly value when the header is absent.
C17_AppendWithSepConcatenates ==
  (Did("append") /\ config.Sep # "") =>
     Occ(reqHeader, ChangedKey) =
       IF ChangedKey \notin DOMAIN hist.before THEN <<Expanded(config.Value)>>
       ELSE <<First \o config.Sep \o Expanded(config.Value)>>

\* C17 amended: an append change with a non-empty separator leaves the single
\* value "existing value + separator + value" when the header holds a value
\* that is not blank, and exactly value when the header is absent or blank.
C17_AppendWithSepJoinsUnlessBlank ==
  (calls > 0 /\ hist.second = <<>> /\ config.Action = "append" /\ config.Sep # "") =>
     /\ pc = "done"
     /\ Occ(reqHeader, ChangedKey) =
          IF TrimSpace(First) = "" THEN <<Expanded(config.Value)>>
          ELSE <<First \o config.Sep \o Expanded(config.Value)>>

\* an append with a separator joined the value onto a stored one
C17_AppendJoined ==
  /\ Did("append")
  /\ config.Sep = ", "
  /\ Occ(hist.before, ChangedKey) = <<"foo">>
  /\ Occ(reqHeader, ChangedKey) = <<"foo, m=1">>

\* C18: an append change with an empty separator adds value as a new last
\* occurrence of the header and leaves every stored occurrence, and every
\* other header, as it was; on an absent header it creates the header with
\* the single value.
C18_AppendWithoutSepAddsOccurrence ==
  (calls > 0 /\ hist.second = <<>> /\ config.Action = "append" /\ config.Sep = "") =>
     /\ pc = "done"
     /\ Occ(reqHeader, ChangedKey) = Append(Occ(hist.before, ChangedKey), Expanded(config.Value))
     /\ DOMAIN reqHeader = DOMAIN hist.before \cup {ChangedKey}
     /\ \A x \in DOMAIN hist.before \ {ChangedKey} : reqHeader[x] = hist.before[x]

\* an append without separator added a second occurrence
C18_AppendAdded ==
  /\ Did("append")
  /\ config.Sep = ""
  /\ Occ(hist.before, ChangedKey) = <<"foo">>
  /\ Occ(reqHeader, ChangedKey) = <<"foo", "m=1">>

\* C19: an unset change removes every occurrence of the header and nothing
\* else; on an absent header the collection is left as it was, and no error
\* is raised.
C19_UnsetRemovesEveryOccurrence ==
  (calls > 0 /\ hist.second = <<>> /\ config.Action = "unset") =>
     /\ pc = "done"
     /\ DOMAIN reqHeader = DOMAIN hist.before \ {ChangedKey}
     /\ \A x \in DOMAIN reqHeader : reqHeader[x] = hist.before[x]

\* an unset removed a header stored with two occurrences
C19_UnsetRemovedTwo ==
  /\ Did("unset")
  /\ Len(Occ(hist.before, ChangedKey)) = 2
  /\ ChangedKey \notin DOMAIN reqHeader
  /\ "Other" \in DOMAIN reqHeader

RECURSIVE ExpandEach(_, _, _)
ExpandEach(s, t, i) ==
  IF i = 0 THEN s
  ELSE LET rest == SubSeq(s, MatchHere(dateAddRe, 1, s, i), Len(s))
       IN SubSeq(s, 1, i - 1) \o HTTPDate(t + Atoi(SubmatchAt(s, i)))
            \o ExpandEach(rest, t, FindFrom(dateAddRe, rest, 1))

\* C21: macro expansion replaces every occurrence of @DT_ADD#N@ of a value by
\* the HTTP-date of the expansion instant plus that occurrence's own N
\* seconds and keeps the text around the macros; seen on the value a set
\* change stores.
C21_EveryMacroGetsItsOwnDate ==
  (Did("set") /\ MatchAtoms(dateAddRe, config.Value)) =>
     Occ(reqHeader, ChangedKey) =
       <<ExpandEach(config.Value, hist.at, FindFrom(dateAddRe, config.Value, 1))>>

C26_SetIsIdempotent ==
  (calls = 2 /\ CallDone /\ config.Action = "set") => reqHeader = hist.before

\* a set of a comma-separated value was applied twice
C26_SetAppliedTwice ==
  /\ calls = 2
  /\ Did("set")
  /\ config.Value = "a, b"
  /\ Len(Occ(reqHeader, ChangedKey)) = IF variant = "changes" THEN 1 ELSE 2

\* C27: after any number of calls the configuration held by the engine is the
\* one it was built with: macro expansion and header application never
\* write into it.
C27_ConfigIsNeverWritten ==
  config = hist.config0

\* the HeaderChange revision expanded the macro of the configured value in
\* two calls at the instant 1
C27_MacroExpandedTwice ==
  /\ calls = 2
  /\ variant = "changes"
  /\ Did("set")
  /\ config.Value = "@DT_ADD#60@"
  /\ hist.at = 1
  /\ Occ(hist.before, ChangedKey) = <<"Thu, 01 Jan 1970 00:01:01 GMT">>
  /\ Occ(reqHeader, ChangedKey) = <<"Thu, 01 Jan 1970 00:01:01 GMT">>

\* the outcomes editHeaders or applyheaderChanges can have on the inputs of
\* the latest call
CallOutcomes ==
  IF variant = "changes"
  THEN {[h |-> st.req, panic |-> st.panic] :
          st \in {applyheaderChanges(<<config>> \o hist.second,
                     PassStart(hist.before, EmptyHeader), 1, <<hist.at, hist.at, hist.at>>)}}
  ELSE editHeaders(AsHeaders(hist.second), hist.before, <<hist.at, hist.at, hist.at>>)

WrapperConfigs(v) ==
  {IF v = "sentinel" THEN [Rules |-> <<rule>>]
   ELSE [Rules |-> <<rule>>, DefaultHeaders |-> << >>] :
     rule \in { Rule("01 length", "js$",
                     << >>,
                     << KV("Content-Length", Header("set", "9", "")) >>),
                Rule("02 pattern", "(", << >>, << >>),
                Rule("03 replace", "js$",
                     << KV("X-Req", Header("edit", "v", "(")) >>,
                     << >>) }}

\* New returns the handler and a nil error for every configuration
WrapperInit ==
  /\ variant \in {"sentinel", "break"}
  /\ config \in WrapperConfigs(variant)
  /\ path \in {"/a.js", "/b"}
  /\ reqHeader \in RequestHeaders0
  /\ now = 0
  /\ pc = "start"
  /\ wrapper = [wroteHeader |-> FALSE, buffer |-> "", path |-> ""]
  /\ sink \in {[header |-> EmptyHeader, committed |-> FALSE, status |-> 0,
                sent |-> EmptyHeader, writes |-> <<>>, flusher |-> f, hijacker |-> j] :
                 f \in BOOLEAN, j \in BOOLEAN}
  /\ calls = 0
  /\ hist = [reqHeader0 |-> reqHeader, reqFired |-> <<>>, reqDefaults |-> 0,
             respFired |-> <<>>, respDefaults |-> 0, respPasses |-> 0,
             evalAtCommit |-> FALSE, handlerBytes |-> "", handlerSet |-> EmptyHeader,
             defaultSides |-> {}, hijack |-> <<>>, pathSet |-> <<>>]

\* a Hijack that never finds the sink wanting
HijackAlwaysOk(sk) == TRUE

\* hijacker, ok := r.ResponseWriter.(http.Hijacker)
HijackOk(sk) == sk.hijacker

\* the downstream handler calls Hijack on the wrapper: an error when the real
\* sink is no http.Hijacker, else the connection passes to the handler and
\* the cycle is followed no further
Hijack ==
  /\ pc = "handler"
  /\ HasWrapper
  /\ calls < MaxCalls
  /\ pc' = IF HijackOk(sink) THEN "hijacked" ELSE pc
  /\ hist' = [hist EXCEPT !.hijack = Append(@, IF HijackOk(sink) THEN "taken" ELSE "error")]
  /\ calls' = calls + 1
  /\ UNCHANGED <<variant, config, path, reqHeader, now, wrapper, sink>>

\* the downstream handler, which holds the request, assigns req.URL.Path;
\* hist keeps the number of response passes made by then
HandlerSetPath ==
  /\ pc = "handler"
  /\ HasWrapper
  /\ calls < MaxCalls
  /\ \E p \in {"/a.js", "/b"} \ {path} : path' = p
  /\ hist' = [hist EXCEPT !.pathSet = <<hist.respPasses>>]
  /\ calls' = calls + 1
  /\ UNCHANGED <<variant, config, reqHeader, now, pc, wrapper, sink>>

WrapperNext ==
  \/ Tick
  \/ ServeHTTP
  \/ WriteHeader
  \/ Write
  \/ Flush
  \/ HandlerSetHeader
  \/ Hijack
  \/ HandlerSetPath
  \/ Return

WrapperSpec == WrapperInit /\ [][WrapperNext]_vars

\* C22: New refuses a configuration in which a rule pattern or a replace
\* expression is not a valid regular expression, so that no cycle of an
\* engine it built aborts on an expression that does not compile.
C22_NoCycleAborts ==
  pc # "panic"

\* C24: when responseWriter.WriteHeader forwards WriteHeader to the real
\* sink, the header collection of the real sink holds no Content-Length,
\* whether the downstream handler or a fired response-side change had set
\* one; the headers the sink commits then hold none.
C24_NoContentLengthAtWriteHeader ==
  [][hist'.respPasses > hist.respPasses =>
       /\ "Content-Length" \notin DOMAIN sink'.header
       /\ (~sink.committed => "Content-Length" \notin DOMAIN sink'.sent)]_vars

\* WriteHeader was forwarded after the handler and a fired rule had both set
\* Content-Length
C24_ContentLengthDropped ==
  /\ "Content-Length" \in DOMAIN hist.handlerSet
  /\ hist.respFired = <<1>>
  /\ config.Rules[1].Name = "01 length"
  /\ sink.committed
  /\ hist.evalAtCommit
  /\ "Content-Length" \notin DOMAIN sink.sent

\* C25: Hijack on a wrapper whose real sink is no http.Hijacker returns an
\* error and changes nothing of the wrapper, of the sink's headers or of
\* the cycle; the cycle goes on and the body the handler wrote is written
\* to the real sink when the handler returns.
C25_HijackErrorChangesNothing ==
  [][/\ Len(hist'.hijack) > Len(hist.hijack) =>
          IF sink.hijacker THEN hist'.hijack[Len(hist'.hijack)] = "taken"
          ELSE /\ hist'.hijack[Len(hist'.hijack)] = "error"
               /\ wrapper' = wrapper
               /\ sink' = sink
               /\ pc' = pc
     /\ (pc' = "done" /\ hist'.hijack # <<>>) => sink'.writes = <<hist'.handlerBytes>>]_vars

\* a cycle ended after a Hijack that returned an error and a Write
C25_EndedAfterHijackError ==
  /\ pc = "done"
  /\ hist.hijack = <<"error">>
  /\ hist.handlerBytes # ""
  /\ sink.writes = <<hist.handlerBytes>>

(***************************************************************************)
(* Two cycles at once.  PairSpec runs two request/response cycles of one   *)
(* engine, the steps of one interleaved with the steps of the other: the   *)
(* configuration and the clock are shared, and path, reqHeader, pc,        *)
(* wrapper, sink and calls hold one value per cycle.  The handler of a     *)
(* cycle writes at most one body.                                          *)
(***************************************************************************)
Cycles == {1, 2}

\* a configuration whose rule puts a date on both sides
PairConfig(v) ==
  IF v = "changes"
  THEN [Rules |-> << ChangeRule("01 js", "js$",
                       << HeaderChange("X-Req", TRUE, "set", "@DT_ADD#60@", "", ""),
                          HeaderChange("Expires", FALSE, "set", "@DT_ADD#60@", "", "") >>) >>,
        DefaultHeaders |-> << HeaderChange("Cache-Test", FALSE, "set", "DEFAULT", "", "") >>]
  ELSE LET rules == << Rule("01 js", "js$",
                          << KV("X-Req", Header("set", "@DT_ADD#60@", "")) >>,
                          << KV("Expires", Header("set", "@DT_ADD#60@", "")) >>) >>
       IN  IF v = "sentinel" THEN [Rules |-> rules]
           ELSE [Rules |-> rules,
                 DefaultHeaders |-> << KV("Cache-Test", Header("set", "DEFAULT", "")) >>]

PairInit ==
  /\ variant \in Variants
  /\ config = PairConfig(variant)
  /\ path \in [Cycles -> {"/a.js", "/b"}]
  /\ reqHeader \in [Cycles -> RequestHeaders0]
  /\ now = 0
  /\ pc = [i \in Cycles |-> "start"]
  /\ wrapper = [i \in Cycles |-> [wroteHeader |-> FALSE, buffer |-> "", path |-> ""]]
  /\ sink = [i \in Cycles |-> [header |-> EmptyHeader, committed |-> FALSE, status |-> 0,
                               sent |-> EmptyHeader, writes |-> <<>>, flusher |-> FALSE]]
  /\ calls = [i \in Cycles |-> 0]
  /\ hist = [config0 |-> config, req0 |-> reqHeader,
             reqAt |-> [i \in Cycles |-> 0], respAt |-> [i \in Cycles |-> 0]]

\* a loop that assigns the expanded text to the element of the list
ConfigExpandedInPlace(cfg, p, t) ==
  IF variant # "changes" THEN cfg
  ELSE [cfg EXCEPT !.Rules =
          [r \in DOMAIN cfg.Rules |->
             IF ~MatchString(cfg.Rules[r].Regexp, p) THEN cfg.Rules[r]
             ELSE [cfg.Rules[r] EXCEPT !.HeaderChanges =
                     [j \in DOMAIN cfg.Rules[r].HeaderChanges |->
                        RangeByReference(cfg.Rules[r].HeaderChanges[j],
                                         ExpandValue(cfg.Rules[r].HeaderChanges[j], t))]]]]

\* the configuration after a pass for the path p at the instant t: the loops
\* range over copies of the rules and of the changes, and adapt over its
\* argument, so the pass leaves the shared configuration as it is
ConfigAfterPass(cfg, p, t) == cfg

\* ServeHTTP of cycle i up to the call of next.ServeHTTP
PairServeHTTP(i) ==
  /\ pc[i] = "start"
  /\ \E st \in Pass(variant, config, path[i], IF HasWrapper THEN "request" ELSE "both",
                   reqHeader[i], sink[i].header, Reads) :
       /\ reqHeader' = [reqHeader EXCEPT ![i] = st.req]
       /\ sink' = [sink EXCEPT ![i].header = st.resp]
       /\ pc' = [pc EXCEPT ![i] = IF st.panic THEN "panic" ELSE "handler"]
  /\ wrapper' = [wrapper EXCEPT ![i].path = path[i]]
  /\ hist' = [hist EXCEPT !.reqAt[i] = now]
  /\ config' = ConfigAfterPass(config, path[i], now)
  /\ UNCHANGED <<variant, path, now, calls>>

\* the handler of cycle i writes its body: through responseWriter.WriteHeader
\* and the buffer in the wrapper revisions, to the sink otherwise
PairWrite(i) ==
  /\ pc[i] = "handler"
  /\ calls[i] = 0
  /\ \E p \in Bodies :
       /\ \E st \in IF HasWrapper
                    THEN Pass(variant, config, wrapper[i].path, "response",
                              reqHeader[i], sink[i].header, Reads)
                    ELSE {PassStart(reqHeader[i], sink[i].header)} :
            sink' = [sink EXCEPT ![i] =
                       IF HasWrapper
                       THEN SinkWriteHeader([@ EXCEPT !.header = HeaderDel(st.resp, "Content-Length")],
                                            StatusOK)
                       ELSE SinkWrite(@, p)]
       /\ wrapper' = [wrapper EXCEPT ![i].wroteHeader = HasWrapper,
                                     ![i].buffer = IF HasWrapper THEN @ \o p ELSE @]
  /\ calls' = [calls EXCEPT ![i] = 1]
  /\ hist' = [hist EXCEPT !.respAt[i] = now]
  /\ config' = ConfigAfterPass(config, wrapper[i].path, now)
  /\ UNCHANGED <<variant, path, reqHeader, now, pc>>

\* the handler of cycle i returns: the wrapper revisions write the buffer
PairReturn(i) ==
  /\ pc[i] = "handler"
  /\ sink' = [sink EXCEPT ![i] = IF HasWrapper THEN SinkWrite(@, wrapper[i].buffer) ELSE @]
  /\ pc' = [pc EXCEPT ![i] = "done"]
  /\ UNCHANGED <<variant, config, path, reqHeader, now, wrapper, calls, hist>>

\* the clock advances while a cycle is running
PairTick ==
  /\ \E i \in Cycles : pc[i] \in {"start", "handler"}
  /\ now < MaxNow
  /\ now' = now + 1
  /\ UNCHANGED <<variant, config, path, reqHeader, pc, wrapper, sink, calls, hist>>

PairNext ==
  \/ PairTick
  \/ \E i \in Cycles : PairServeHTTP(i)
  \/ \E i \in Cycles : PairWrite(i)
  \/ \E i \in Cycles : PairReturn(i)

PairSpec == PairInit /\ [][PairNext]_vars

\* what cycle i ends with when it runs alone: the same steps from the same
\* request, against the configuration as loaded, at the instants cycle i
\* read the clock
AloneRequest(i) ==
  CHOOSE st \in Pass(variant, hist.config0, path[i], IF HasWrapper THEN "request" ELSE "both",
                     hist.req0[i], EmptyHeader, <<hist.reqAt[i], hist.reqAt[i], hist.reqAt[i]>>) : TRUE

AloneResponse(i) ==
  IF ~HasWrapper THEN AloneRequest(i).resp
  ELSE IF calls[i] = 0 THEN EmptyHeader
  ELSE HeaderDel((CHOOSE st \in Pass(variant, hist.config0, path[i], "response",
                                     AloneRequest(i).req, EmptyHeader,
                                     <<hist.respAt[i], hist.respAt[i], hist.respAt[i]>>) : TRUE).resp,
                 "Content-Length")

\* C29: in every interleaving of the steps of two cycles that share one
\* configuration, a cycle that has ended has the request headers, the
\* response headers and the flushed body it has when it runs alone.
C29_CyclesDoNotInterfere ==
  \A i \in Cycles :
    pc[i] = "done" =>
      /\ reqHeader[i] = AloneRequest(i).req
      /\ sink[i].header = AloneResponse(i)
      /\ config = hist.config0
      /\ \E p \in Bodies :
           sink[i].writes = IF calls[i] = 1 THEN <<p>> ELSE IF HasWrapper THEN <<"">> ELSE <<>>

\* both cycles matched the rule; the second was served before the handler
\* of the first wrote, and is still in its handler when the first has ended
C29_EndedInsideTheOtherCycle ==
  /\ pc[1] = "done"
  /\ pc[2] = "handler"
  /\ path = [i \in Cycles |-> "/a.js"]
  /\ calls[1] = 1
  /\ hist.reqAt[2] < hist.respAt[1]

(***************************************************************************)
(* The response side of a cycle                                            *)
(***************************************************************************)
\* C31: within one cycle the response-side rules are evaluated exactly once,
\* however many times the downstream handler calls WriteHeader and Write,
\* so no response-side change is applied twice.
C31_OneResponsePassPerCycle ==
  hist.respPasses <= 1

\* C32: the rules that fire in a response-side pass are the rules that fired
\* in the request-side pass of the cycle, also when the downstream handler
\* has assigned another path to the request or set headers meanwhile.
C32_SameRulesFireOnBothSides ==
  hist.respPasses > 0 => hist.respFired = hist.reqFired

\* a rule fired on both sides although the handler had moved the request to
\* a path the rule does not match before the response-side pass
C32_FiredOnCapturedPath ==
  /\ hist.pathSet # <<>>
  /\ hist.respPasses > hist.pathSet[1]
  /\ wrapper.path = "/a.js"
  /\ path = "/b"
  /\ hist.respFired = <<1>>

(***************************************************************************)
(* The clock during one change.  ClockSpec applies the change of config    *)
(* as ChangeSpec does, but the clock may advance between the time.Now()    *)
(* reads of one call: ts[i] is what the i-th read returns.                 *)
(***************************************************************************)
\* editHeaders or applyheaderChanges on the change of config, the clock
\* advancing meanwhile
CallWhileClockRuns ==
  /\ pc \in {"start", "done"}
  /\ calls < MaxApplies
  /\ \E ts \in {r \in [1..3 -> now..MaxNow] : r[1] <= r[2] /\ r[2] <= r[3]} :
       /\ \E st \in IF HasWrapper
                    THEN editHeaders(<<AsHeader(config)>>, reqHeader, ts)
                    ELSE {applyheaderChange(config, reqHeader, ts)} :
            /\ reqHeader' = st.h
            /\ pc' = IF st.panic THEN "panic" ELSE "done"
       /\ now' = ts[3]
       /\ hist' = [hist EXCEPT !.before = reqHeader, !.at = ts[1]]
  /\ calls' = calls + 1
  /\ UNCHANGED <<variant, config, path, wrapper, sink>>

ClockNext == Tick \/ CallWhileClockRuns

ClockSpec == ChangeInit /\ [][ClockNext]_vars

\* C33: the dates produced while one change is applied come from a single
\* expansion instant: an edit whose value carries a date macro and whose
\* pattern matches leaves exactly the substituted content, nothing appended,
\* also when the clock advances between two reads of the call.
C33_OneExpansionInstant ==
  (EditedPresent /\ Matched /\ MatchAtoms(dateAddRe, config.Value)) =>
     Occ(reqHeader, ChangedKey) = <<Replaced>>

\* C34: only the configured value of a change is expanded: a date macro
\* that the content of a header held before the call is still there after
\* an edit or an append on that header whose pattern does not match it.
C34_ClientMacroIsKept ==
  (CallDone /\ config.Action \in {"edit", "append"}
     /\ Contains(First, "@DT_ADD#5@")) =>
     \E i \in 1..Len(Occ(reqHeader, ChangedKey)) :
        Contains(Occ(reqHeader, ChangedKey)[i], "@DT_ADD#5@")

\* C35: a Write on the wrapper made before any WriteHeader runs the
\* response-side evaluation and commits the headers with status 200 before
\* its bytes are buffered; a later Write only appends to the buffer: it runs
\* no evaluation and leaves the real sink as it is.
C35_FirstWriteFinalizes ==
  [][(hist'.handlerBytes # hist.handlerBytes) =>
       /\ \E p \in Bodies : wrapper'.buffer = wrapper.buffer \o p
       /\ sink'.writes = sink.writes
       /\ IF ~wrapper.wroteHeader
          THEN /\ wrapper'.wroteHeader
               /\ hist'.respPasses = hist.respPasses + 1
               /\ sink'.committed
               /\ ~sink.committed => (sink'.status = StatusOK /\ hist'.evalAtCommit)
          ELSE /\ sink' = sink
               /\ hist'.respPasses = hist.respPasses]_vars

\* two Writes were made and no WriteHeader: one evaluation, status 200, both
\* bodies in the buffer and nothing written to the real sink
C35_TwoWritesOneEvaluation ==
  /\ pc = "handler"
  /\ calls = 2
  /\ wrapper.buffer = "aa"
  /\ hist.respPasses = 1
  /\ sink.status = StatusOK
  /\ sink.writes = <<>>

\* C38: applying one change for header H, whatever its action, leaves every
\* other header of the collection as it was: same names, same values in the
\* same order.
C38_OtherHeadersUntouched ==
  (calls > 0 /\ hist.second = <<>>) =>
     /\ DOMAIN reqHeader \ {ChangedKey} = DOMAIN hist.before \ {ChangedKey}
     /\ \A k \in DOMAIN hist.before \ {ChangedKey} : reqHeader[k] = hist.before[k]

\* a set changed its header and the other header of the collection is there
C38_SetBesideOther ==
  /\ Did("set")
  /\ Occ(reqHeader, ChangedKey) # Occ(hist.before, ChangedKey)
  /\ Occ(reqHeader, "Other") = <<"o">>


(***************************************************************************)
(* The offset of a date macro.  MacroSpec is ChangeSpec with changes whose *)
(* value is one date macro, its offset running from a minute to numbers    *)
(* of seconds beyond what 64 bits of nanoseconds or of integer hold.       *)
(***************************************************************************)
\* the digits of the macros: 9223372036 seconds are the last whole number
\* of seconds below 1<<63 nanoseconds, 9223372036854775807 is 1<<63 - 1
MacroOffsets ==
  {"60", "86400", "2678400", "2147483647", "9223372036", "9223372037",
   "9223372036854775807", "9223372036854775808", "99999999999999999999"}

MacroInit ==
  /\ variant \in Variants
  /\ config \in {HeaderChange("X-A", TRUE, a, "@DT_ADD#" \o n \o "@", "z+", "") :
                   a \in {"set", "append"}, n \in MacroOffsets}
  /\ path = "/"
  /\ reqHeader \in {BagOf(<<>>), BagOf(<<"foo">>)}
  /\ now = 0
  /\ pc = "start"
  /\ wrapper = [wroteHeader |-> FALSE, buffer |-> "", path |-> ""]
  /\ sink = [header |-> EmptyHeader, committed |-> FALSE, status |-> 0,
             sent |-> EmptyHeader, writes |-> <<>>, flusher |-> FALSE]
  /\ calls = 0
  /\ hist = [before |-> reqHeader, at |-> now, second |-> <<>>, config0 |-> config]

MacroSpec == MacroInit /\ [][ChangeNext]_vars

\* the digits of the macro of config
MacroDigits == FirstSubmatch(hist.config0.Value)

\* the digits of MacroOffsets that are above 1<<63 - 1
Unparsed == {"9223372036854775808", "99999999999999999999"}

\* the year an HTTP-date names
YearOf(date) == Atoi(SubSeq(date, 13, 16))

\* C36: for every offset N that parses as an integer, a set change of value
\* @DT_ADD#N@ made at instant T stores the HTTP-date of T + N seconds, also
\* when N seconds do not fit 64 bits of nanoseconds: the date stored is
\* never earlier than T (an instant of 1970 here), and for an offset of up
\* to nine digits it is the date of T + N exactly.
C36_DateIsOffsetFromNow ==
  (Did("set") /\ MacroDigits \notin Unparsed) =>
     /\ Len(Occ(reqHeader, ChangedKey)) = 1
     /\ YearOf(Occ(reqHeader, ChangedKey)[1]) >= 1970
     /\ Len(MacroDigits) <= 9 =>
          Occ(reqHeader, ChangedKey) = <<HTTPDate(hist.at + Atoi(MacroDigits))>>

\* C37: when the digits of a date macro do not parse as an integer, the
\* call returns all the same and the macro is replaced by the HTTP-date of
\* the instant of the call, an offset of zero: a set change stores that date
\* alone, an append change stores it in the last occurrence.
C37_UnparsedOffsetIsZero ==
  (calls > 0 /\ hist.second = <<>> /\ MacroDigits \in Unparsed) =>
     /\ pc = "done"
     /\ config.Action = "set" =>
          Occ(reqHeader, ChangedKey) = <<HTTPDate(hist.at)>>
     /\ config.Action = "append" =>
          /\ Occ(reqHeader, ChangedKey) # <<>>
          /\ Contains(Occ(reqHeader, ChangedKey)[Len(Occ(reqHeader, ChangedKey))],
                      HTTPDate(hist.at))

C37_TwentyDigitsAtOne ==
  /\ Did("set")
  /\ MacroDigits = "99999999999999999999"
  /\ hist.at = 1
  /\ Occ(reqHeader, ChangedKey) = <<"Thu, 01 Jan 1970 00:00:01 GMT">>

====
